---- MODULE Spec2Model ----
(***************************************************************************)
(* Model of the hook useSmartNodesPartnerTransfer                          *)
(* (src/src/hooks/use-smart-nodes-partner-transfer.tsx).                   *)
(*                                                                         *)
(* One hook instance owns the React state (loading, error).  Every call of *)
(* transfer() is an attempt; an attempt runs synchronously up to its next  *)
(* await of an external call and resumes, in one step, when that call      *)
(* returns or rejects.  Nothing in transfer() looks at loading, so the     *)
(* page may call it again while an earlier attempt is suspended.           *)
(***************************************************************************)
EXTENDS Integers, Sequences, FiniteSets, TLC

\* ------------------------------------------------------------------ bounds
MaxAttempts == 2
MaxAmount == 3
MaxQuantity == 10
MaxCapacity == 14

Attempts == 1..MaxAttempts

\* --------------------------------------------------------------- messages
MsgNone == ""
MsgInput == "Oops! It looks like you didn't fill in the amount correctly"
MsgCapacity == "Oops! It looks like you are trying to buy more than we have available."
MsgEmail == "Oops! Error to retrieve your email"
MsgNetwork == "Oops! Looks like you're using a wrong network"
MsgFunds == "Oops! You do not have sufficient funds to complete your purchase."
MsgRejected == "Oops! Looks like you rejected the transaction signature."
MsgGeneric == "Oops! Looks like an error occurred while trying to complete your purchase."

\* ----------------------------------------------------------------- values
NoPartner == "noPartner"
PartnerIds == {"partner-1"}
NoEmail == "noEmail"
Emails == {"user@example.com"}
NoHash == "noHash"
TestHash == "0x123456789abcdef"
NoData == -1
NoBonus == -1
NoError == {"noError"}
ErrorShapes == SUBSET {"funds", "rejected"}
PlainError == {}

\* A JavaScript value of a request field: its runtime type and, for a
\* number, its value.
Number(n) == [type |-> "number", val |-> n]
NotANumber == [type |-> "nan", val |-> 0]
Undefined == [type |-> "undefined", val |-> 0]
String(n) == [type |-> "string", val |-> n]

AmountValues == {Number(n) : n \in 0..MaxAmount} \cup {NotANumber, Undefined}
QuantityValues == {Number(n) : n \in 0..MaxQuantity}
BonusPlanValues == {Number(1), Undefined}
ReferralCodeValues == {String(1), Undefined}

VARIABLES
    props,      \* the hook's arguments { referralCode, amount, bonusPlan }
    partnerId,  \* what getPartnerId() returns
    ready,      \* user and data (useUser, usePartner) are both present
    storage,    \* store.get(STORAGE_KEY): the stored email
    testFlag,   \* the page URL carries testSuccessModalOption
    loading,    \* useState(false)
    error,      \* useState("")
    listeners,  \* the beforeunload listeners registered on window
    query,      \* the operationResult the page was last navigated to
    pc,         \* per attempt: the call it is suspended at
    lid,        \* per attempt: identity of its preventCloseTab closure
    timer,      \* per attempt: the setTimeout of the test flag
    email,      \* per attempt: const { email } = storage
    hash,       \* per attempt: const { hash } from sendUserOperationAsync
    bonusValue, \* per attempt: const bonusValue of validateAmount
    exceeded,   \* per attempt: the value of the condition of line 52
    outcome,    \* per attempt: the exit of transfer() it took
    thrown,     \* per attempt: the error its catch clause received
    calls,      \* per attempt: the external calls it made, in order
    routed      \* per attempt: the operationResults it navigated to

vars == <<props, partnerId, ready, storage, testFlag, loading, error,
          listeners, query, pc, lid, timer, email, hash, bonusValue,
          exceeded, outcome, thrown, calls, routed>>

env == <<props, partnerId, ready, storage, testFlag>>

\* ------------------------------------------------------- pure functions

SafeParseOk_AmountUnchecked(p) ==
    /\ p.referralCode.type = "string"
    /\ p.bonusPlan.type = "number"

\* transferSchema.safeParse: z.string(), z.number(), z.number(); z.number()
\* rejects NaN as well as every non-number.
SafeParseOk(p) ==
    /\ p.referralCode.type = "string"
    /\ p.amount.type = "number"
    /\ p.bonusPlan.type = "number"

\* Decimal digits of a natural number, as String() prints them.
RECURSIVE DigitsOf(_)
DigitsOf(n) ==
    IF n < 10 THEN <<n>> ELSE Append(DigitsOf(n \div 10), n % 10)

\* String(n / 3) for a natural n: the integer part, then for a remainder a
\* point and the leading digits of the fraction ("." is written 10).
Point == 10
StringOfThird(n) ==
    LET q == n \div 3
        r == n % 3
    IN IF r = 0 THEN DigitsOf(q)
       ELSE IF r = 1 THEN DigitsOf(q) \o <<Point, 3, 3, 3>>
       ELSE DigitsOf(q) \o <<Point, 6, 6, 7>>

\* parseInt: the value of the longest prefix of decimal digits.
RECURSIVE ParseIntFrom(_, _, _)
ParseIntFrom(s, i, acc) ==
    IF i > Len(s) \/ s[i] = Point THEN acc
    ELSE ParseIntFrom(s, i + 1, acc * 10 + s[i])

ParseInt(s) == ParseIntFrom(s, 1, 0)

BonusValue_StrictlyAbove(amount) ==
    ParseInt(IF amount > 3 THEN StringOfThird(amount) ELSE DigitsOf(0))

\* const bonusValue = parseInt(String(amount >= 3 ? amount / 3 : 0));
BonusValue(amount) ==
    ParseInt(IF amount >= 3 THEN StringOfThird(amount) ELSE DigitsOf(0))

ExceedsCapacity_BonusForgotten(amount, available) ==
    amount > available

\* amount + bonusValue > validator.availableSmartNodes
ExceedsCapacity(amount, available) ==
    amount + BonusValue(amount) > available

\* The hash of the user operation an attempt sends: every operation the
\* wallet accepts has a hash of its own.
TxHash(a) == "0x" \o ToString(a)

\* encryptData({ hash, email }): an encoding that determines both fields.
EncryptData(h, e) == <<h, e>>
NoQuery == <<>>

IsInsufficientFundsError(e) == "funds" \in e
IsRejectedError(e) == "rejected" \in e

CatchMessage_RejectedFirst(e) ==
    IF IsRejectedError(e) THEN MsgRejected
    ELSE IF IsInsufficientFundsError(e) THEN MsgFunds
    ELSE MsgGeneric

\* The if / else-if / else of the catch clause.
CatchMessage(e) ==
    IF IsInsufficientFundsError(e) THEN MsgFunds
    ELSE IF IsRejectedError(e) THEN MsgRejected
    ELSE MsgGeneric

\* ---------------------------------------------------------------- helpers
InFlight(a) == pc[a] \notin {"idle", "done"}

Call(a, fn, arg) == calls' = [calls EXCEPT ![a] = Append(@, <<fn, arg>>)]

\* An exit of transfer(): the attempt is over and took exit kind.
Exit(a, kind) ==
    /\ pc' = [pc EXCEPT ![a] = "done"]
    /\ outcome' = [outcome EXCEPT ![a] = kind]

\* The closures a handler may run with: one shared with an earlier call
\* (same render) or a new one (a later render).
Closures(a) == {lid[b] : b \in {c \in Attempts : c < a}} \cup {a}

\* -------------------------------------------------------------------- Init
InitWith(amounts) ==
    /\ props \in [referralCode : ReferralCodeValues,
                  amount : amounts,
                  bonusPlan : BonusPlanValues]
    /\ partnerId \in PartnerIds \cup {NoPartner}
    /\ ready \in BOOLEAN
    /\ storage \in Emails \cup {NoEmail}
    /\ testFlag \in BOOLEAN
    /\ loading = FALSE
    /\ error = MsgNone
    /\ listeners = {}
    /\ query = NoQuery
    /\ pc = [a \in Attempts |-> "idle"]
    /\ lid = [a \in Attempts |-> a]
    /\ timer = [a \in Attempts |-> "none"]
    /\ email = [a \in Attempts |-> NoEmail]
    /\ hash = [a \in Attempts |-> NoHash]
    /\ bonusValue = [a \in Attempts |-> NoBonus]
    /\ exceeded = [a \in Attempts |-> FALSE]
    /\ outcome = [a \in Attempts |-> "none"]
    /\ thrown = [a \in Attempts |-> NoError]
    /\ calls = [a \in Attempts |-> <<>>]
    /\ routed = [a \in Attempts |-> <<>>]

\* ----------------------------------------------------------------- actions

\* transfer(event), lines 65-81 and validateAmount lines 45-48: up to the
\* await of getPartnerData.
Transfer(a) ==
    /\ pc[a] = "idle"
    /\ \A b \in Attempts : b < a => pc[b] # "idle"
    /\ \E l \in Closures(a) : lid' = [lid EXCEPT ![a] = l]
    /\ IF ~SafeParseOk(props)
       THEN /\ error' = MsgInput
            /\ loading' = FALSE
            /\ Exit(a, "InvalidInput")
            /\ UNCHANGED calls
       ELSE IF partnerId = NoPartner
       THEN /\ error' = MsgCapacity
            /\ loading' = FALSE
            /\ Exit(a, "NoPartnerContext")
            /\ UNCHANGED calls
       ELSE /\ error' = MsgNone
            /\ loading' = TRUE
            /\ pc' = [pc EXCEPT ![a] = "getPartnerData"]
            /\ Call(a, "getPartnerData", partnerId)
            /\ UNCHANGED outcome
    /\ UNCHANGED <<env, listeners, query, timer, email, hash, bonusValue, exceeded,
                   thrown, routed>>

\* getPartnerData resolves with validator (NoData: a falsy value); lines
\* 49-57, 82-115: up to the await of validateNetwork.
PartnerData(a, validator) ==
    /\ pc[a] = "getPartnerData"
    /\ IF validator = NoData
       THEN /\ error' = MsgCapacity
            /\ loading' = FALSE
            /\ Exit(a, "PartnerLookupFailed")
            /\ UNCHANGED <<bonusValue, exceeded, email, timer, calls>>
       ELSE /\ bonusValue' = [bonusValue EXCEPT ![a] = BonusValue(props.amount.val)]
            /\ exceeded' = [exceeded EXCEPT ![a] =
                              props.amount.val + bonusValue'[a] > validator]
            /\ IF ExceedsCapacity(props.amount.val, validator)
               THEN /\ error' = MsgCapacity
                    /\ loading' = FALSE
                    /\ Exit(a, "InsufficientCapacity")
                    /\ UNCHANGED <<email, timer, calls>>
               ELSE IF storage = NoEmail
               THEN /\ error' = MsgEmail
                    /\ loading' = FALSE
                    /\ Exit(a, "MissingStoredIdentity")
                    /\ UNCHANGED <<email, timer, calls>>
               ELSE /\ email' = [email EXCEPT ![a] = storage]
                    /\ timer' = [timer EXCEPT ![a] =
                                   IF testFlag THEN "armed" ELSE @]
                    /\ pc' = [pc EXCEPT ![a] = "validateNetwork"]
                    /\ Call(a, "validateNetwork", "arbitrum")
                    /\ UNCHANGED <<error, loading, outcome>>
    /\ UNCHANGED <<env, listeners, query, lid, hash, thrown, routed>>

\* getPartnerData rejects: line 81 is outside the try, so transfer()
\* rejects too and none of its later lines runs.
PartnerDataRejects(a) ==
    /\ pc[a] = "getPartnerData"
    /\ Exit(a, "Unhandled")
    /\ UNCHANGED <<env, loading, error, listeners, query, lid, timer, email,
                   hash, bonusValue, exceeded, thrown, calls, routed>>

\* The callback of setTimeout, lines 101-111.
TestTimer(a) ==
    /\ timer[a] = "armed"
    /\ timer' = [timer EXCEPT ![a] = "fired"]
    /\ query' = EncryptData(TestHash, email[a])
    /\ routed' = [routed EXCEPT ![a] = Append(@, EncryptData(TestHash, email[a]))]
    /\ loading' = FALSE
    /\ UNCHANGED <<env, error, listeners, pc, lid, email, hash, bonusValue, exceeded,
                   outcome, thrown, calls>>

\* The catch and finally clauses, lines 167-184, for the error e.
Caught(a, e, kind) ==
    /\ thrown' = [thrown EXCEPT ![a] = e]
    /\ error' = CatchMessage(e)
    /\ loading' = FALSE
    /\ Exit(a, kind)

\* validateNetwork resolves; lines 116-128: up to the await of
\* getConversionRate.
Network(a, usingRightNetwork) ==
    /\ pc[a] = "validateNetwork"
    /\ IF ~usingRightNetwork
       THEN /\ error' = MsgNetwork
            /\ loading' = FALSE
            /\ Exit(a, "WrongNetwork")
            /\ UNCHANGED <<thrown, calls>>
       ELSE IF ~ready \/ partnerId = NoPartner
       THEN /\ Caught(a, PlainError, "MissingContext")
            /\ UNCHANGED calls
       ELSE /\ pc' = [pc EXCEPT ![a] = "getConversionRate"]
            /\ Call(a, "getConversionRate", "")
            /\ UNCHANGED <<error, loading, outcome, thrown>>
    /\ UNCHANGED <<env, listeners, query, lid, timer, email, hash,
                   bonusValue, exceeded, routed>>

\* getConversionRate resolves; lines 129-135: the listener is added and
\* the user operation sent.
ConversionRate(a) ==
    /\ pc[a] = "getConversionRate"
    /\ listeners' = listeners \cup {lid[a]}
    /\ pc' = [pc EXCEPT ![a] = "sendUserOperationAsync"]
    /\ Call(a, "sendUserOperationAsync", "paymentsWallet")
    /\ UNCHANGED <<env, loading, error, query, lid, timer, email, hash,
                   bonusValue, exceeded, outcome, thrown, routed>>

\* sendUserOperationAsync resolves with { hash }; line 143.
UserOperation(a) ==
    /\ pc[a] = "sendUserOperationAsync"
    /\ hash' = [hash EXCEPT ![a] = TxHash(a)]
    /\ pc' = [pc EXCEPT ![a] = "getUserReferralCode"]
    /\ Call(a, "getUserReferralCode", email[a])
    /\ UNCHANGED <<env, loading, error, listeners, query, lid, timer, email,
                   bonusValue, exceeded, outcome, thrown, routed>>

\* getUserReferralCode resolves; lines 145-156.
ReferralCode(a) ==
    /\ pc[a] = "getUserReferralCode"
    /\ pc' = [pc EXCEPT ![a] = "purchaseTracker"]
    /\ Call(a, "purchaseTracker", hash[a])
    /\ UNCHANGED <<env, loading, error, listeners, query, lid, timer, email,
                   hash, bonusValue, exceeded, outcome, thrown, routed>>

PurchaseTracked_FalseStatusThrows(a, status) ==
    /\ pc[a] = "purchaseTracker"
    /\ IF status
       THEN /\ listeners' = listeners \ {lid[a]}
            /\ query' = EncryptData(hash[a], email[a])
            /\ routed' = [routed EXCEPT ![a] =
                            Append(@, EncryptData(hash[a], email[a]))]
            /\ loading' = FALSE
            /\ Exit(a, "Done")
            /\ UNCHANGED <<error, thrown>>
       ELSE /\ Caught(a, PlainError, "RecordingFailed")
            /\ UNCHANGED <<listeners, query, routed>>
    /\ UNCHANGED <<env, lid, timer, email, hash, bonusValue, exceeded, calls>>

\* purchaseTracker resolves with status; lines 158-166 and the finally.
PurchaseTracked(a, status) ==
    /\ pc[a] = "purchaseTracker"
    /\ listeners' = listeners \ {lid[a]}
    /\ query' = EncryptData(hash[a], email[a])
    /\ routed' = [routed EXCEPT ![a] = Append(@, EncryptData(hash[a], email[a]))]
    /\ error' = IF ~status THEN MsgGeneric ELSE error
    /\ loading' = FALSE
    /\ Exit(a, IF status THEN "Done" ELSE "RecordingFailed")
    /\ UNCHANGED <<env, lid, timer, email, hash, bonusValue, exceeded, thrown, calls>>

\* An awaited call inside the try rejects with e.
TrySites == {"validateNetwork", "getConversionRate", "sendUserOperationAsync",
             "getUserReferralCode", "purchaseTracker"}

\* The errors an awaited call may reject with: the wallet's may have either
\* shape the catch clause looks for.
Rejections(site) ==
    IF site = "sendUserOperationAsync" THEN ErrorShapes ELSE {PlainError}

Rejected_RetriesOnce(a, e) ==
    /\ pc[a] \in TrySites
    /\ e \in Rejections(pc[a])
    /\ IF pc[a] = "sendUserOperationAsync"
          /\ Cardinality({i \in 1..Len(calls[a]) : calls[a][i][1] = pc[a]}) < 2
       THEN /\ Call(a, "sendUserOperationAsync", "paymentsWallet")
            /\ UNCHANGED <<pc, outcome, thrown, error, loading>>
       ELSE /\ Caught(a, e, pc[a])
            /\ UNCHANGED calls
    /\ UNCHANGED <<env, listeners, query, lid, timer, email, hash,
                   bonusValue, exceeded, routed>>

Rejected(a, e) ==
    /\ pc[a] \in TrySites
    /\ e \in Rejections(pc[a])
    /\ Caught(a, e, pc[a])
    /\ UNCHANGED <<env, listeners, query, lid, timer, email, hash,
                   bonusValue, exceeded, calls, routed>>

Step(a) ==
    \/ Transfer(a)
    \/ \E v \in {NoData} \cup (0..MaxCapacity) : PartnerData(a, v)
    \/ PartnerDataRejects(a)
    \/ TestTimer(a)
    \/ \E ok \in BOOLEAN : Network(a, ok)
    \/ ConversionRate(a)
    \/ UserOperation(a)
    \/ ReferralCode(a)
    \/ \E status \in BOOLEAN : PurchaseTracked(a, status)
    \/ \E e \in ErrorShapes : Rejected(a, e)

Init == InitWith(AmountValues)

Next == \E a \in Attempts : Step(a)

Spec == Init /\ [][Next]_vars

\* One call of transfer() for every quantity up to MaxQuantity.
InitQuantity == InitWith(QuantityValues)

NextQuantity == Step(1)

SpecQuantity == InitQuantity /\ [][NextQuantity]_vars


\* ------------------------------------------------------------ observations
CallsTo(a, fn) == {i \in 1..Len(calls[a]) : calls[a][i][1] = fn}

Called(a, fn) == CallsTo(a, fn) # {}

Quiescent == \A a \in Attempts : ~InFlight(a)

\* ------------------------------------------------------------------ claims

\* C1: re-invoking transfer while loading is true starts no second attempt:
\* in every reachable state at most one attempt of the hook instance is
\* between its start and its end.
C1_AtMostOneAttemptInFlight ==
    Cardinality({a \in Attempts : InFlight(a)}) <= 1

\* C2: once the wallet submission of an attempt has succeeded, the finished
\* attempt has called purchaseTracker exactly once, with the hash the wallet
\* returned, whatever getUserReferralCode did in between.
C2_OneLedgerRecordWithHash ==
    \A a \in Attempts :
        (pc[a] = "done" /\ hash[a] # NoHash) =>
            /\ Cardinality(CallsTo(a, "purchaseTracker")) = 1
            /\ \A i \in CallsTo(a, "purchaseTracker") : calls[a][i][2] = hash[a]

\* C3: an attempt routes the page to the result screen only after the wallet
\* has returned it a transaction hash, and the operationResult it navigates
\* to encodes exactly that hash and the stored email.
C3_RoutedOnlyAfterSubmission ==
    \A a \in Attempts :
        \A i \in 1..Len(routed[a]) :
            /\ hash[a] # NoHash
            /\ routed[a][i] = EncryptData(hash[a], storage)

\* C4: the beforeunload guard is released on the success and on the failure
\* path: once attempts have run and none is in flight any more, no
\* beforeunload listener is registered.
C4_GuardReleasedWhenDone ==
    ((\E a \in Attempts : pc[a] = "done") /\ Quiescent) => listeners = {}

\* C5: when purchaseTracker returns a false status after a successful wallet
\* submission, the attempt still routes the page to the result screen with
\* the wallet's hash, and error holds the warning message afterwards; it
\* did not go through the catch clause.
C5_RecordingFailedStillRoutes ==
    [][\A a \in Attempts :
          (pc[a] = "purchaseTracker" /\ outcome'[a] = "RecordingFailed") =>
              /\ hash[a] = TxHash(a)
              /\ query' = EncryptData(TxHash(a), storage)
              /\ routed'[a] = Append(routed[a], EncryptData(TxHash(a), storage))
              /\ error' = MsgGeneric
              /\ thrown'[a] = NoError
              /\ pc'[a] = "done"]_vars

C5_Witness ==
    \E a \in Attempts :
        /\ outcome[a] = "RecordingFailed"
        /\ error = MsgGeneric
        /\ query = EncryptData(TxHash(a), storage)

\* C6: loading mirrors the attempt lifecycle: it is true exactly while some
\* attempt is between the start of transfer and its return.
C6_LoadingMirrorsLifecycle ==
    loading = (\E a \in Attempts : InFlight(a))

\* C7: when quantity + bonus exceeds the capacity the partner lookup
\* returned, the attempt ends there with the capacity message and loading
\* false, and it never calls sendUserOperationAsync.
C7_OverCapacityNeverSubmits ==
    /\ [][\A a \in Attempts :
            (pc[a] = "getPartnerData" /\ exceeded'[a]) =>
                /\ error' = MsgCapacity
                /\ loading' = FALSE
                /\ pc'[a] = "done"]_vars
    /\ [](\A a \in Attempts :
            exceeded[a] =>
                /\ pc[a] = "done"
                /\ ~Called(a, "sendUserOperationAsync")
                /\ hash[a] = NoHash)

C7_Witness ==
    /\ props.amount = Number(2)
    /\ \E a \in Attempts :
        /\ exceeded[a]
        /\ bonusValue[a] = 0
        /\ pc[a] = "done"
        /\ error = MsgCapacity

\* C8: with a non-numeric amount every attempt ends in its first step with
\* the input message and loading false, and makes no external call at all.
C8_NonNumericAmountNoCalls ==
    /\ [][\A a \in Attempts :
            (props.amount.type # "number" /\ pc[a] = "idle" /\ pc'[a] # "idle") =>
                /\ error' = MsgInput
                /\ loading' = FALSE
                /\ pc'[a] = "done"]_vars
    /\ [](props.amount.type # "number" =>
            \A a \in Attempts : calls[a] = <<>> /\ routed[a] = <<>>)

C8_Witness ==
    /\ props.amount = NotANumber
    /\ props.bonusPlan.type = "number"
    /\ props.referralCode.type = "string"
    /\ \E a \in Attempts : pc[a] = "done" /\ error = MsgInput /\ ~loading

\* C9: a rejection of sendUserOperationAsync is classified from the error's
\* shape: out of funds gives the funds message (also when the error looks
\* rejected too), a rejected signature the rejection message, anything else
\* the generic message; the attempt ends there.
C9_WalletFailureClassified ==
    [][\A a \in Attempts :
          (pc[a] = "sendUserOperationAsync" /\ thrown'[a] # NoError) =>
              /\ pc'[a] = "done"
              /\ thrown'[a] \in ErrorShapes
              /\ thrown'[a] = {"funds"} => error' = MsgFunds
              /\ thrown'[a] = {"funds", "rejected"} => error' = MsgFunds
              /\ thrown'[a] = {"rejected"} => error' = MsgRejected
              /\ thrown'[a] = {} => error' = MsgGeneric]_vars

C9_Witness ==
    \E a \in Attempts :
        /\ outcome[a] = "sendUserOperationAsync"
        /\ thrown[a] = {"funds", "rejected"}
        /\ error = MsgFunds

\* C10: the bonus used in capacity validation is floor(quantity / 3) for a
\* quantity of at least 3 and 0 below, for every quantity up to MaxQuantity.
C10_BonusIsFloorOfThird ==
    \A a \in Attempts :
        bonusValue[a] # NoBonus =>
            bonusValue[a] = IF props.amount.val >= 3
                            THEN props.amount.val \div 3
                            ELSE 0

C10_Witness ==
    /\ props.amount = Number(10)
    /\ bonusValue[1] = 3


\* The exits of transfer() taken before the user operation is sent, by the
\* failure kind each stands for (ConversionFailed: getConversionRate
\* rejected).
PreSubmissionExits ==
    {"InvalidInput", "NoPartnerContext", "PartnerLookupFailed",
     "InsufficientCapacity", "MissingStoredIdentity", "WrongNetwork",
     "getConversionRate"}

\* The order in which transfer() makes its external calls.
CallOrder ==
    <<"getPartnerData", "validateNetwork", "getConversionRate",
      "sendUserOperationAsync", "getUserReferralCode", "purchaseTracker">>

\* C11: an attempt that failed before submission has no side effect, then or
\* later: it never called the wallet, the referral service or the ledger,
\* never added the beforeunload listener (which transfer() adds together
\* with the wallet call) and never routed the page.
C11_EarlyFailureHasNoSideEffect ==
    \A a \in Attempts :
        outcome[a] \in PreSubmissionExits =>
            /\ ~Called(a, "sendUserOperationAsync")
            /\ ~Called(a, "getUserReferralCode")
            /\ ~Called(a, "purchaseTracker")
            /\ routed[a] = <<>>

\* C12: a failure after a successful submission does not keep the user from
\* the result screen: an attempt that got a hash from the wallet and has
\* ended has routed the page to the operationResult of that hash, whether
\* the referral and ledger calls returned, returned false or rejected.
C12_SubmittedAttemptIsRouted ==
    \A a \in Attempts :
        (pc[a] = "done" /\ hash[a] # NoHash) =>
            \E i \in 1..Len(routed[a]) :
                routed[a][i] = EncryptData(hash[a], email[a])

\* C13: within an attempt the steps come in the order of the data flow: its
\* external calls are a prefix of CallOrder, the wallet is called only with
\* a valid request, sufficient capacity and a stored email, and the page is
\* routed only after purchaseTracker has returned.
C13_StepsInDataFlowOrder ==
    \A a \in Attempts :
        /\ Len(calls[a]) <= Len(CallOrder)
        /\ \A i \in 1..Len(calls[a]) : calls[a][i][1] = CallOrder[i]
        /\ Called(a, "sendUserOperationAsync") =>
              /\ SafeParseOk(props)
              /\ bonusValue[a] # NoBonus /\ ~exceeded[a]
              /\ email[a] \in Emails
        /\ (Called(a, "getUserReferralCode") => hash[a] # NoHash)
        /\ routed[a] # <<>> =>
              /\ Called(a, "purchaseTracker")
              /\ pc[a] = "done"
              /\ outcome[a] \in {"Done", "RecordingFailed"}

\* C14: whenever a user operation of the hook instance is outstanding, a
\* beforeunload listener is registered, whatever the interleaving of the
\* transfer() calls and their continuations.
C14_GuardedWhileSubmitting ==
    (\E a \in Attempts : pc[a] = "sendUserOperationAsync") => listeners # {}


\* The five services of the collaborators.
Services ==
    {"getPartnerData", "getConversionRate", "sendUserOperationAsync",
     "getUserReferralCode", "purchaseTracker"}

\* The step is one of attempt a: a continuation of its transfer() call or
\* the callback of its timer.
StepOf(a) == pc'[a] # pc[a] \/ timer'[a] # timer[a]

\* C15: the three failures of capacity validation are told apart by error:
\* an attempt that ends for a missing partner id or for an unavailable
\* partner lookup does not leave the message an attempt over capacity
\* leaves (MsgCapacity, see C7).
C15_CapacityFailuresDistinct ==
    [][\A a \in Attempts :
          (outcome[a] = "none"
           /\ outcome'[a] \in {"NoPartnerContext", "PartnerLookupFailed"}) =>
              error' # MsgCapacity]_vars

\* C16: every attempt ends with loading false, and loading stays false
\* until the next call of transfer(): the step that ends an attempt leaves
\* loading false, and only the start of an attempt sets it true.
C16_EndsWithLoadingFalse ==
    [][/\ \A a \in Attempts :
            (pc[a] # "done" /\ pc'[a] = "done") => loading' = FALSE
       /\ (~loading /\ loading') =>
            \E a \in Attempts : pc[a] = "idle" /\ pc'[a] # "idle"]_vars

\* C17: a call of transfer() starts a fresh attempt: it resets error and
\* sets loading, and while it is in flight no step of an earlier attempt
\* (a continuation or a timer) changes error, loading, the beforeunload
\* listeners or the route.
C17_FreshAttemptOwnsState ==
    [][/\ \A b \in Attempts :
            (pc[b] = "idle" /\ InFlight(b)') =>
                error' = MsgNone /\ loading' = TRUE
       /\ \A a, b \in Attempts :
            (a < b /\ InFlight(b) /\ StepOf(a)) =>
                UNCHANGED <<error, loading, listeners, query>>]_vars

\* C18: in one execution of transfer() each of the five services is called
\* at most once; no failure makes the attempt call one again.
C18_EachServiceAtMostOnce ==
    \A a \in Attempts :
        \A fn \in Services : Cardinality(CallsTo(a, fn)) <= 1

C18_Witness ==
    \E a \in Attempts :
        /\ pc[a] = "done"
        /\ \A fn \in Services : Cardinality(CallsTo(a, fn)) = 1
        /\ \E b \in Attempts :
            /\ outcome[b] = "sendUserOperationAsync"
            /\ Cardinality(CallsTo(b, "sendUserOperationAsync")) = 1

====
